---- MODULE Spec2Model ----
(***************************************************************************)
(* Windows-Time-Checker (src/main.py): the scheduled-task registrar       *)
(* (ensure_schtask_installed / ensure_schtask_removed), the connectivity  *)
(* retry loop of main and the time resynchronisation step.                *)
(*                                                                         *)
(* The program is single-threaded.  Every external operation (a schtasks, *)
(* sc or w32tm command, a temporary-file operation, the connectivity      *)
(* probe, os.startfile) is one step whose outcome the environment chooses.*)
(* Python strings are sequences of one-character strings, so that         *)
(* str(), .lower() and int() are computed, not assumed.                   *)
(***************************************************************************)
EXTENDS Integers, Sequences, FiniteSets, TLC

(* ---------------------------------------------------------------- bounds *)
\* largest max_check_times written in the configuration file
MaxN == 2
\* number of registrar calls the registrar driver makes
MaxCalls == 2

(* ---------------------------------------------------- program constants *)
\* `for _ in range(5)`: the status polls after sc start
PollLimit == 5
\* the defaults main passes to get_config_var
DefaultMaxCheckTimes == 3
DefaultCheckInterval == 1000

(* -------------------------------------------------------- Python values *)
\* a value of the YAML mapping: a string, a boolean or an integer
Absent   == [t |-> "absent"]
StrV(s)  == [t |-> "str", v |-> s]
BoolV(b) == [t |-> "bool", v |-> b]
IntV(k)  == [t |-> "int", v |-> k]

UpperCase == <<"A","B","C","D","E","F","G","H","I","J","K","L","M",
               "N","O","P","Q","R","S","T","U","V","W","X","Y","Z">>
LowerCase == <<"a","b","c","d","e","f","g","h","i","j","k","l","m",
               "n","o","p","q","r","s","t","u","v","w","x","y","z">>
Digits    == <<"0","1","2","3","4","5","6","7","8","9">>

\* one character of str.lower()
lower_char(c) ==
    IF \E k \in 1..26 : UpperCase[k] = c
    THEN LowerCase[CHOOSE k \in 1..26 : UpperCase[k] = c]
    ELSE c

\* str.lower()
lower(s) == [k \in 1..Len(s) |-> lower_char(s[k])]

RECURSIVE nat_str(_)
\* the decimal digits of a natural number
nat_str(k) ==
    IF k < 10 THEN <<Digits[k + 1]>>
    ELSE nat_str(k \div 10) \o <<Digits[(k % 10) + 1]>>

\* str(x) of a configuration value
str(x) ==
    CASE x.t = "str"  -> x.v
      [] x.t = "bool" -> IF x.v THEN <<"T","r","u","e">> ELSE <<"F","a","l","s","e">>
      [] x.t = "int"  -> IF x.v < 0 THEN <<"-">> \o nat_str(-x.v) ELSE nat_str(x.v)

\* the tuple ("yes", "true", "1") of main and send_notification
TruthyWords == { <<"y","e","s">>, <<"t","r","u","e">>, <<"1">> }

\* str(x).lower() in ("yes", "true", "1")
is_truthy(x) == lower(str(x)) \in TruthyWords

IsDigit(c) == \E k \in 1..10 : Digits[k] = c
DigitVal(c) == (CHOOSE k \in 1..10 : Digits[k] = c) - 1

RECURSIVE digits_val(_)
digits_val(s) ==
    IF s = <<>> THEN 0
    ELSE 10 * digits_val(SubSeq(s, 1, Len(s) - 1)) + DigitVal(s[Len(s)])

\* int(x): [ok |-> TRUE, v |-> the integer], or ok = FALSE for ValueError
py_int(x) ==
    CASE x.t = "int"  -> [ok |-> TRUE, v |-> x.v]
      [] x.t = "bool" -> [ok |-> TRUE, v |-> IF x.v THEN 1 ELSE 0]
      [] x.t = "str"  ->
           LET neg  == x.v # <<>> /\ x.v[1] = "-"
               body == IF x.v # <<>> /\ x.v[1] \in {"-", "+"} THEN Tail(x.v) ELSE x.v
           IN IF body # <<>> /\ \A k \in 1..Len(body) : IsDigit(body[k])
              THEN [ok |-> TRUE, v |-> IF neg THEN -digits_val(body) ELSE digits_val(body)]
              ELSE [ok |-> FALSE, v |-> 0]

(* --------------------------------------------------------- configuration *)
\* get_config_var: the default when the mapping is empty or lacks the key
get_config_var(c, part, default) ==
    IF DOMAIN c = {} THEN default
    ELSE IF part \notin DOMAIN c THEN default
    ELSE c[part]

Yes_ == <<"Y","e","s">>
No_  == <<"N","o">>

\* the values each option takes in the configuration files considered;
\* Absent stands for a file that does not set the option
AutoValues     == { Absent, StrV(<<"Y","E","S">>), BoolV(TRUE), StrV(No_) }
ExternalValues == { Absent, StrV(Yes_), BoolV(TRUE) }
PathValues     == { StrV(<<>>), StrV(<<"t",".","e","x","e">>) }
MaxValues      == { Absent, StrV(<<"x">>), IntV(-1) } \cup { IntV(k) : k \in 0..MaxN }
IntervalValues == { Absent, IntV(-1) }
NotifyValues   == { Absent, StrV(No_) }

Keys == << "lauch_when_device_start", "Use_excternal_path", "Path",
           "max_check_times", "check_interval", "use_notification" >>

\* the mapping yaml.safe_load returns for a choice of option values
MakeConfig(vals) ==
    LET present == { k \in 1..Len(Keys) : vals[k] # Absent }
    IN [ key \in { Keys[k] : k \in present } |->
            vals[CHOOSE k \in present : Keys[k] = key] ]

Configs ==
    { MakeConfig(<<a, e, p, m, c, u>>) :
        a \in AutoValues, e \in ExternalValues, p \in PathValues,
        m \in MaxValues, c \in IntervalValues, u \in NotifyValues }

\* load_config lines 28-35: the default mapping, its first key written with
\* the trailing colon it has in the source
default_config ==
    [ key \in { "Use_excternal_path:", "Path", "lauch_when_device_start",
                "check_interval", "max_check_times", "use_notification" } |->
        CASE key = "Use_excternal_path:"     -> StrV(No_)
          [] key = "Path"                    -> StrV(<<>>)
          [] key = "lauch_when_device_start" -> StrV(No_)
          [] key = "check_interval"          -> IntV(DefaultCheckInterval)
          [] key = "max_check_times"         -> IntV(DefaultMaxCheckTimes)
          [] key = "use_notification"        -> StrV(Yes_) ]

\* the mapping with no key: what `yaml.safe_load(f) or {}` gives for an empty file
EmptyMapping == MakeConfig(<<Absent, Absent, Absent, Absent, Absent, Absent>>)

\* config.yaml: missing, not parseable as a mapping, empty, or holding a mapping
\* (the mapping stands for its YAML text)
NoFile(state) == [state |-> state, content |-> EmptyMapping]
FileOf(m)     == [state |-> "mapping", content |-> m]

ConfigFiles ==
    { NoFile("missing"), NoFile("malformed"), NoFile("empty") }
       \cup { FileOf(m) : m \in Configs }

\* load_config lines 37-50: the mapping it returns for the file f
load_config_result(f) ==
    IF f.state \in { "missing", "malformed" } THEN default_config
    ELSE f.content

\* load_config lines 43-49: the file afterwards; the default is written when
\* the file could not be read as a mapping, and a failing write is ignored
load_config_file(f, written) ==
    IF f.state \in { "missing", "malformed" } /\ written
    THEN FileOf(default_config)
    ELSE f

\* whether the write of lines 46-47 succeeds, where load_config attempts it
WriteOutcomes(f) ==
    IF f.state \in { "missing", "malformed" } THEN BOOLEAN ELSE { TRUE }

(* ------------------------------------------------------------------ state *)
VARIABLES
    cfgfile,     \* config.yaml on disk
    config,      \* the mapping load_config returned
    pc,          \* where main (or the registrar driver) stands
    i,           \* the loop variable of `for i in range(max_check_times)`
    max_check_times, check_interval,   \* the locals of main, once read
    probes,      \* the outcomes of is_connected so far
    sleeps,      \* the calls of time.sleep(check_interval): the attempt each followed
    resyncs,     \* how often the resync block (line 244) was entered
    notes,       \* the calls of send_notification
    toasts,      \* how many of them showed a toast
    cmds,        \* the time-service commands, waits and launches issued
    svc,         \* the state of the w32time service
    polls,       \* iterations of the `for _ in range(5)` loop done
    rpc,         \* where the registrar stands ("idle": not in a call)
    calls,       \* the registrar calls: kind, scheduler commands, result
    registered,  \* whether the scheduler holds the task
    files        \* the temporary files on disk

vars == << cfgfile, config, pc, i, max_check_times, check_interval, probes, sleeps,
           resyncs, notes, toasts, cmds, svc, polls, rpc, calls,
           registered, files >>

mainVars == << cfgfile, config, pc, i, max_check_times, check_interval, probes, sleeps,
               resyncs, notes, toasts, cmds, svc, polls >>

(* -------------------------------------------------------------- registrar *)
\* what a (ok, msg) function hands back; raised: an exception left it
Ret(ok, msg) == [raised |-> FALSE, ok |-> ok, msg |-> msg]
Raised       == [raised |-> TRUE, ok |-> FALSE, msg |-> "exception"]
NoRet        == [raised |-> FALSE, ok |-> FALSE, msg |-> "pending"]

\* subprocess.run: the program cannot be started (OSError), or exits 0 or not
RunOutcomes == { "nostart", "zero", "nonzero" }

\* schtasks /Query exits 0 exactly when the scheduler holds the task
QueryOutcomes == { "nostart", IF registered THEN "zero" ELSE "nonzero" }

\* schtasks /Delete cannot exit 0 for a task the scheduler does not hold
DeleteOutcomes == IF registered THEN RunOutcomes ELSE { "nostart", "nonzero" }

\* the registrar call in progress records one more scheduler command
WithCmd(cs, cmd, res) ==
    [cs EXCEPT ![Len(cs)].cmds = Append(@, [cmd |-> cmd, res |-> res])]

\* the registrar call in progress returns r
WithRet(cs, r, reg) ==
    [cs EXCEPT ![Len(cs)].ret = r, ![Len(cs)].done = TRUE, ![Len(cs)].after = reg]

\* a call of ensure_schtask_installed ("install") or ensure_schtask_removed
StartCall(kind) ==
    /\ calls' = Append(calls, [kind |-> kind, before |-> registered, cmds |-> <<>>,
                               ret |-> NoRet, done |-> FALSE, after |-> registered])
    /\ rpc' = IF kind = "install" THEN "ensure_installed" ELSE "ensure_removed"

\* schtask_exists testing returncode != 0
schtask_exists_inverted(out) ==
    IF out = "nostart" THEN [raised |-> FALSE, v |-> FALSE]
    ELSE [raised |-> FALSE, v |-> out # "zero"]

\* schtask_exists on the outcome of schtasks /Query: returncode == 0, and
\* False for any exception
schtask_exists(out) ==
    IF out = "nostart" THEN [raised |-> FALSE, v |-> FALSE]
    ELSE [raised |-> FALSE, v |-> out = "zero"]

\* create_schtask without its `except Exception` clause
create_schtask_except_narrow(exc) ==
    IF exc = "CalledProcessError" THEN "fallback" ELSE "propagate"

\* the except clauses of create_schtask: where an exception of the try block goes
create_schtask_except(exc) ==
    IF exc = "CalledProcessError" THEN "fallback" ELSE "fail"

\* an exception exc leaves the try block of create_schtask
CreateRaise(exc, cs) ==
    LET h == create_schtask_except(exc)
    IN CASE h = "fallback" -> rpc' = "fallback" /\ calls' = cs
         [] h = "fail"     -> rpc' = "idle" /\ calls' = WithRet(cs, Ret(FALSE, "error"), registered')
         [] OTHER          -> rpc' = "idle" /\ calls' = WithRet(cs, Raised, registered')

\* os.unlink inside try/except Exception: pass
os_unlink(fs, f, ok) == IF ok THEN fs \ {f} ELSE fs

\* the temporary files of the registrar call in progress
BuildFile  == << Len(calls), "build" >>
SubmitFile == << Len(calls), "submit" >>

\* ensure_schtask_installed up to its call of create_schtask
ensure_schtask_installed ==
    /\ UNCHANGED mainVars
    /\ rpc = "ensure_installed"
    /\ \E out \in QueryOutcomes :
         LET ex == schtask_exists(out)
             cs == WithCmd(calls, "query", out)
         IN IF ex.raised
            THEN rpc' = "idle" /\ calls' = WithRet(cs, Raised, registered)
            ELSE IF ex.v
            THEN rpc' = "idle" /\ calls' = WithRet(cs, Ret(TRUE, "exists"), registered)
            ELSE rpc' = "xml_build" /\ calls' = cs
    /\ UNCHANGED << registered, files >>

\* create_schtask lines 154-157 and _build_task_xml lines 76-132: the element tree
xml_build ==
    /\ UNCHANGED mainVars
    /\ rpc = "xml_build"
    /\ UNCHANGED << registered, files >>
    /\ \E ok \in BOOLEAN :
         IF ok THEN rpc' = "xml_tmp" /\ UNCHANGED calls
         ELSE CreateRaise("Exception", calls)

\* _build_task_xml line 133: NamedTemporaryFile(delete=False)
xml_tmp ==
    /\ UNCHANGED mainVars
    /\ rpc = "xml_tmp"
    /\ UNCHANGED registered
    /\ \E ok \in BOOLEAN :
         IF ok THEN rpc' = "xml_write" /\ files' = files \cup {BuildFile} /\ UNCHANGED calls
         ELSE UNCHANGED files /\ CreateRaise("Exception", calls)

\* _build_task_xml lines 134-136: tree.write and flush inside the with block
xml_write ==
    /\ UNCHANGED mainVars
    /\ rpc = "xml_write"
    /\ UNCHANGED << registered, files >>
    /\ \E ok \in BOOLEAN :
         IF ok THEN rpc' = "xml_read" /\ UNCHANGED calls
         ELSE CreateRaise("Exception", calls)

\* _build_task_xml lines 137-145: read the file back, unlink it in the finally
xml_read ==
    /\ UNCHANGED mainVars
    /\ rpc = "xml_read"
    /\ UNCHANGED registered
    /\ \E rd \in BOOLEAN, ul \in BOOLEAN :
         /\ files' = os_unlink(files, BuildFile, ul)
         /\ IF rd THEN rpc' = "task_tmp" /\ UNCHANGED calls
            ELSE CreateRaise("Exception", calls)

\* create_schtask line 161: NamedTemporaryFile(delete=False)
task_tmp ==
    /\ UNCHANGED mainVars
    /\ rpc = "task_tmp"
    /\ UNCHANGED registered
    /\ \E ok \in BOOLEAN :
         IF ok THEN rpc' = "task_write" /\ files' = files \cup {SubmitFile} /\ UNCHANGED calls
         ELSE UNCHANGED files /\ CreateRaise("Exception", calls)

\* create_schtask lines 162-164: tf.write and flush inside the with block
task_write ==
    /\ UNCHANGED mainVars
    /\ rpc = "task_write"
    /\ UNCHANGED << registered, files >>
    /\ \E ok \in BOOLEAN :
         IF ok THEN rpc' = "task_submit" /\ UNCHANGED calls
         ELSE CreateRaise("Exception", calls)

\* create_schtask lines 165-173: schtasks /Create /XML with check=True, and the
\* unlink of the finally clause
task_submit ==
    /\ UNCHANGED mainVars
    /\ rpc = "task_submit"
    /\ \E out \in RunOutcomes, ul \in BOOLEAN :
         LET cs == WithCmd(calls, "create_xml", out)
         IN /\ files' = os_unlink(files, SubmitFile, ul)
            /\ registered' = (registered \/ out = "zero")
            /\ CASE out = "zero" ->
                      /\ rpc' = "idle"
                      /\ calls' = WithRet(cs, Ret(TRUE, "Created from generated XML"), TRUE)
                 [] out = "nonzero" -> CreateRaise("CalledProcessError", cs)
                 [] OTHER -> CreateRaise("OSError", cs)

\* create_schtask lines 174-183: the /SC ONLOGON /TR creation through the shell
fallback ==
    /\ UNCHANGED mainVars
    /\ rpc = "fallback"
    /\ UNCHANGED files
    /\ \E out \in RunOutcomes :
         LET cs == WithCmd(calls, "create_tr", out)
         IN /\ registered' = (registered \/ out = "zero")
            /\ rpc' = "idle"
            /\ calls' = IF out = "zero"
                        THEN WithRet(cs, Ret(TRUE, "Created by /TR fallback"), TRUE)
                        ELSE WithRet(cs, Ret(FALSE, "both methods failed"), registered)

\* ensure_schtask_removed up to its call of delete_schtask
ensure_schtask_removed ==
    /\ UNCHANGED mainVars
    /\ rpc = "ensure_removed"
    /\ \E out \in QueryOutcomes :
         LET ex == schtask_exists(out)
             cs == WithCmd(calls, "query", out)
         IN IF ex.raised
            THEN rpc' = "idle" /\ calls' = WithRet(cs, Raised, registered)
            ELSE IF ~ex.v
            THEN rpc' = "idle" /\ calls' = WithRet(cs, Ret(TRUE, "not found"), registered)
            ELSE rpc' = "delete" /\ calls' = cs
    /\ UNCHANGED << registered, files >>

\* delete_schtask: schtasks /Delete /TN name /F with check=True
delete_schtask ==
    /\ UNCHANGED mainVars
    /\ rpc = "delete"
    /\ UNCHANGED files
    /\ \E out \in DeleteOutcomes :
         LET cs == WithCmd(calls, "delete", out)
         IN /\ registered' = (registered /\ out # "zero")
            /\ rpc' = "idle"
            /\ calls' = IF out = "zero"
                        THEN WithRet(cs, Ret(TRUE, "Deleted"), FALSE)
                        ELSE WithRet(cs, Ret(FALSE, "error"), registered)

\* one step of the registrar; main and the driver wait while it runs
Registrar ==
    \/ ensure_schtask_installed
    \/ xml_build
    \/ xml_tmp
    \/ xml_write
    \/ xml_read
    \/ task_tmp
    \/ task_write
    \/ task_submit
    \/ fallback
    \/ ensure_schtask_removed
    \/ delete_schtask

(* ------------------------------------------------------- registrar driver *)
\* the state before any call: a scheduler that holds the task or not
InitCommon ==
    /\ i = 0 /\ max_check_times = 0 /\ check_interval = 0
    /\ probes = <<>> /\ sleeps = <<>> /\ resyncs = 0
    /\ notes = <<>> /\ toasts = 0 /\ cmds = <<>>
    /\ polls = 0
    /\ rpc = "idle" /\ calls = <<>>
    /\ registered \in BOOLEAN /\ files = {}

InitReg ==
    /\ InitCommon
    /\ cfgfile = NoFile("empty")
    /\ config = EmptyMapping
    /\ svc = "stopped"
    /\ pc = "driver"

\* a caller that installs or removes the task, one call after the other
DriverCall ==
    /\ pc = "driver" /\ rpc = "idle" /\ Len(calls) < MaxCalls
    /\ \E kind \in { "install", "remove" } : StartCall(kind)
    /\ UNCHANGED << mainVars, registered, files >>

NextReg == DriverCall \/ Registrar

SpecReg == InitReg /\ [][NextReg]_vars

(* ------------------------------------------------------------------- main *)
\* send_notification: reloads the configuration and shows the toast only when
\* use_notification is yes/true/1; n is the title and message of the call.
\* The configuration file is taken not to change during the run and
\* toast.show() to return.
send_notification(n) ==
    /\ \E written \in WriteOutcomes(cfgfile) :
          cfgfile' = load_config_file(cfgfile, written)
    /\ notes' = Append(notes, n)
    /\ toasts' = IF is_truthy(get_config_var(load_config_result(cfgfile),
                                             "use_notification", StrV(Yes_)))
                 THEN toasts + 1 ELSE toasts

Note(title, msg) == [title |-> title, msg |-> msg, remain |-> 0]

\* the autostart option compared without .lower()
autostart_call_case_sensitive(c) ==
    IF str(get_config_var(c, "lauch_when_device_start", StrV(No_))) \in TruthyWords
    THEN "install" ELSE "remove"

\* lines 230-231 and 235: which registrar function the autostart option selects
autostart_call(c) ==
    IF is_truthy(get_config_var(c, "lauch_when_device_start", StrV(No_)))
    THEN "install" ELSE "remove"

\* main line 228: config = load_config()
load_config ==
    /\ pc = "load"
    /\ \E written \in WriteOutcomes(cfgfile) :
          cfgfile' = load_config_file(cfgfile, written)
    /\ config' = load_config_result(cfgfile)
    /\ pc' = "start"
    /\ UNCHANGED << i, max_check_times, check_interval, probes, sleeps, resyncs,
                    notes, toasts, cmds, svc, polls, rpc, calls, registered, files >>

\* main lines 230-232 and 236: the autostart option chooses the registrar call
reconcile ==
    /\ pc = "start"
    /\ StartCall(autostart_call(config))
    /\ pc' = "reconciling"
    /\ UNCHANGED << config, i, max_check_times, check_interval, probes, sleeps,
                    resyncs, notes, toasts, cfgfile, cmds, svc, polls, registered, files >>

\* main lines 232-241: the registrar returned; notify a failure, read the
\* retry options with int()
reconciled ==
    /\ pc = "reconciling" /\ rpc = "idle"
    /\ UNCHANGED << config, i, probes, sleeps, resyncs, cmds, svc, polls,
                    rpc, calls, registered, files >>
    /\ LET c == calls[Len(calls)]
           m == py_int(get_config_var(config, "max_check_times", IntV(DefaultMaxCheckTimes)))
           d == py_int(get_config_var(config, "check_interval", IntV(DefaultCheckInterval)))
       IN IF c.ret.raised
          THEN pc' = "crashed" /\ UNCHANGED << notes, toasts, cfgfile, max_check_times, check_interval >>
          ELSE /\ IF c.ret.ok THEN UNCHANGED << notes, toasts, cfgfile >>
                  ELSE send_notification(Note(IF c.kind = "install" THEN "Autostart Failed"
                                              ELSE "Autostart Cleanup Failed", c.ret.msg))
               /\ IF m.ok /\ d.ok
                  THEN /\ max_check_times' = m.v /\ check_interval' = d.v
                       /\ pc' = "loop"
                  ELSE /\ UNCHANGED << max_check_times, check_interval >>
                       /\ pc' = "crashed"

\* the loop without its break
loop_break_missing == FALSE

\* line 273: the break that follows the resync block
loop_break == TRUE

\* the resync block is left: break out of the loop, or go on with the next i
EndIteration ==
    IF loop_break THEN pc' = "done" /\ UNCHANGED i
    ELSE pc' = "loop" /\ i' = i + 1

\* line 275 written as i < max_check_times
attempts_remain_off_by_one(k, n) == k < n

\* line 275: whether another attempt remains after an unreachable probe
attempts_remain(k, n) == k < n - 1

\* line 276 counting the attempt just made as remaining
remaining_attempts_off_by_one(k, n) == n - k

\* line 276: the number the notification states
remaining_attempts(k, n) == n - k - 1

\* a loop whose body runs once before the bound is tested
in_range_do_while(k, n) == k < n \/ k = 0

\* line 242: `for i in range(max_check_times)` has an i to offer
in_range(k, n) == k < n

\* is_connected treating an answer as unreachable and an exception as reachable
is_connected_result_swapped(out) ==
    IF out = "RequestException" THEN "Reachable" ELSE "Unreachable"

\* is_connected lines 210-214: requests.get answers within the timeout, or
\* raises a RequestException (timeout, DNS failure, refused connection)
is_connected_result(out) ==
    IF out = "RequestException" THEN "Unreachable" ELSE "Reachable"

\* lines 242-243 and 274-279: one probe of is_connected and, when it fails,
\* the notification
is_connected ==
    /\ pc = "loop" /\ in_range(i, max_check_times)
    /\ UNCHANGED << config, max_check_times, check_interval, sleeps, resyncs,
                    cmds, svc, polls, rpc, calls, registered, files >>
    /\ \E out \in { "response", "RequestException" } :
         /\ probes' = Append(probes, is_connected_result(out))
         /\ IF is_connected_result(out) = "Reachable"
            THEN pc' = "resync" /\ UNCHANGED << i, notes, toasts, cfgfile >>
            ELSE IF attempts_remain(i, max_check_times)
            THEN /\ send_notification([title |-> "Failure", msg |-> "Remain attempts",
                                       remain |-> remaining_attempts(i, max_check_times)])
                 /\ pc' = "sleep" /\ UNCHANGED i
            ELSE /\ send_notification(Note("Failure", "Time check failed."))
                 /\ pc' = "loop" /\ i' = i + 1

\* line 277: time.sleep(check_interval); a negative length raises ValueError,
\* which nothing in main catches
sleep ==
    /\ pc = "sleep"
    /\ sleeps' = Append(sleeps, i)
    /\ IF check_interval < 0 THEN pc' = "crashed" /\ UNCHANGED i
       ELSE pc' = "loop" /\ i' = i + 1
    /\ UNCHANGED << config, max_check_times, check_interval, probes, resyncs, notes,
                    toasts, cfgfile, cmds, svc, polls, rpc, calls, registered, files >>

\* line 242: range(max_check_times) is exhausted
loop_exit ==
    /\ pc = "loop" /\ ~in_range(i, max_check_times)
    /\ pc' = "done"
    /\ UNCHANGED << config, i, max_check_times, check_interval, probes, sleeps, resyncs,
                    notes, toasts, cfgfile, cmds, svc, polls, rpc, calls, registered, files >>

\* line 245 comparing the option without .lower()
external_option_case_sensitive(c) ==
    LET x == get_config_var(c, "Use_excternal_path", StrV(No_))
    IN IF x.t # "str" THEN "AttributeError"
       ELSE IF x.v \in TruthyWords THEN "external" ELSE "builtin"

\* line 245: .lower() of the option; a value that is no string has no .lower()
external_option(c) ==
    LET x == get_config_var(c, "Use_excternal_path", StrV(No_))
    IN IF x.t # "str" THEN "AttributeError"
       ELSE IF lower(x.v) \in TruthyWords THEN "external" ELSE "builtin"

\* line 247 without the test of the path
path_missing_unchecked(c) == FALSE

\* line 247: `not path`
path_missing(c) == get_config_var(c, "Path", StrV(<<>>)).v = <<>>

\* lines 244-249 and 271-272: the resync block chooses its branch
resync ==
    /\ pc = "resync"
    /\ resyncs' = resyncs + 1
    /\ UNCHANGED << config, max_check_times, check_interval, probes, sleeps,
                    cmds, svc, polls, rpc, calls, registered, files >>
    /\ LET o == external_option(config)
       IN CASE o = "AttributeError" ->
                 /\ send_notification(Note("Failure", "Failed to launch Time checker"))
                 /\ EndIteration
            [] o = "external" /\ path_missing(config) ->
                 /\ send_notification(Note("Failure", "No valid path configured"))
                 /\ pc' = "done" /\ UNCHANGED i
            [] o = "external" /\ ~path_missing(config) ->
                 /\ pc' = "startfile" /\ UNCHANGED << i, notes, toasts, cfgfile >>
            [] OTHER ->
                 /\ pc' = "sc_query" /\ UNCHANGED << i, notes, toasts, cfgfile >>

Cmd(cmd, res) == [cmd |-> cmd, res |-> res]

\* lines 250-251 and 271-272: os.startfile(path)
startfile ==
    /\ pc = "startfile"
    /\ UNCHANGED << config, max_check_times, check_interval, probes, sleeps,
                    resyncs, svc, polls, rpc, calls, registered, files >>
    /\ \E out \in { "launched", "raised" } :
         /\ cmds' = Append(cmds, Cmd("startfile", out))
         /\ send_notification(IF out = "launched"
                              THEN Note("Success", "The time has been checked successfully.")
                              ELSE Note("Failure", "Failed to launch Time checker"))
    /\ EndIteration

\* what sc query prints for the service: contains RUNNING or not; nostart: the
\* command cannot be started
ScQueryOutcomes(s) == { "nostart", IF s = "running" THEN "RUNNING" ELSE "OTHER" }

\* the built-in branch without its except clause and without the outer one
w32tm_failed_uncaught(e) ==
    /\ pc' = "crashed"
    /\ UNCHANGED << i, notes, toasts, cfgfile >>

\* lines 269-270: the except clause of the built-in branch; the message ends
\* with the text of the exception: the RuntimeError of line 267 carries the
\* exit code and the captured output, an OSError the reason the command could
\* not be started
w32tm_failed(e) ==
    /\ send_notification(Note("Failure",
          IF e = "RuntimeError"
          THEN "w32tm failed or service not running: w32tm failed: returncode stdout stderr"
          ELSE "w32tm failed or service not running: OSError"))
    /\ EndIteration

\* line 257 starting the service whatever the query printed
needs_start_always(out) == TRUE

\* line 257: `"RUNNING" not in out`
needs_start(out) == out # "RUNNING"

\* lines 255-257: the first sc query w32time
sc_query ==
    /\ pc = "sc_query"
    /\ UNCHANGED << config, max_check_times, check_interval, probes, sleeps,
                    resyncs, svc, polls, rpc, calls, registered, files >>
    /\ \E out \in ScQueryOutcomes(svc) :
         /\ cmds' = Append(cmds, Cmd("sc_query", out))
         /\ CASE out = "nostart"  -> w32tm_failed("OSError")
              [] needs_start(out) -> pc' = "sc_start" /\ UNCHANGED << i, notes, toasts, cfgfile >>
              [] OTHER            -> pc' = "w32tm" /\ UNCHANGED << i, notes, toasts, cfgfile >>

\* line 258: sc start w32time; the service begins to start or stays stopped
sc_start ==
    /\ pc = "sc_start"
    /\ UNCHANGED << config, max_check_times, check_interval, probes, sleeps,
                    resyncs, rpc, calls, registered, files >>
    /\ \E out \in { "nostart", "ran" } :
         /\ cmds' = Append(cmds, Cmd("sc_start", out))
         /\ IF out = "nostart"
            THEN w32tm_failed("OSError") /\ UNCHANGED << svc, polls >>
            ELSE /\ svc' \in { "stopped", "pending" }
                 /\ polls' = 0
                 /\ pc' = "poll" /\ UNCHANGED << i, notes, toasts, cfgfile >>

\* line 263 never leaving the wait loop early
poll_break_never(out) == FALSE

\* line 263: `if "RUNNING" in (q.stdout or ""): break`
poll_break(out) == out = "RUNNING"

\* lines 260-264: one iteration of the wait loop: sleep a second, query again
poll ==
    /\ pc = "poll" /\ polls < PollLimit
    /\ UNCHANGED << config, max_check_times, check_interval, probes, sleeps,
                    resyncs, rpc, calls, registered, files >>
    /\ svc' \in (IF svc = "pending" THEN { "pending", "running" } ELSE { svc })
    /\ \E out \in ScQueryOutcomes(svc') :
         /\ cmds' = cmds \o << Cmd("sleep", "1"), Cmd("sc_query", out) >>
         /\ CASE out = "nostart" -> w32tm_failed("OSError") /\ UNCHANGED polls
              [] poll_break(out) -> pc' = "w32tm" /\ UNCHANGED << i, notes, toasts, cfgfile, polls >>
              [] OTHER ->
                   /\ polls' = polls + 1
                   /\ pc' = IF polls + 1 < PollLimit THEN "poll" ELSE "w32tm"
                   /\ UNCHANGED << i, notes, toasts, cfgfile >>

\* line 266 taking any exit code for success
resync_succeeded_any_exit(out) == out # "nostart"

\* line 266: `proc.returncode != 0` raises; the command that cannot be
\* started has raised already
resync_succeeded(out) == out = "zero"

\* lines 265-270: w32tm /resync and its exit code
w32tm ==
    /\ pc = "w32tm"
    /\ UNCHANGED << config, max_check_times, check_interval, probes, sleeps,
                    resyncs, svc, polls, rpc, calls, registered, files >>
    /\ \E out \in RunOutcomes :
         /\ cmds' = Append(cmds, Cmd("w32tm", out))
         /\ IF resync_succeeded(out)
            THEN /\ send_notification(Note("Success", "The time has been checked successfully."))
                 /\ EndIteration
            ELSE w32tm_failed(IF out = "nostart" THEN "OSError" ELSE "RuntimeError")

Init ==
    /\ InitCommon
    /\ cfgfile \in ConfigFiles
    /\ config = EmptyMapping
    /\ svc \in { "stopped", "running" }
    /\ pc = "load"

Next ==
    \/ load_config
    \/ reconcile
    \/ Registrar
    \/ reconciled
    \/ is_connected
    \/ sleep
    \/ loop_exit
    \/ resync
    \/ startfile
    \/ sc_query
    \/ sc_start
    \/ poll
    \/ w32tm

Spec == Init /\ [][Next]_vars

(* ----------------------------------------------------------------- claims *)
AnyReachable == \E k \in 1..Len(probes) : probes[k] = "Reachable"

\* C1: a run performs exactly one resync attempt if a probe returned Reachable
\* and none if every probe returned Unreachable; no probe follows the first
\* Reachable probe, and at most max_check_times probes are made.
C1_ResyncOnceIffReachable ==
    /\ \A k \in 1..(Len(probes) - 1) : probes[k] = "Unreachable"
    /\ Len(probes) > 0 => Len(probes) <= max_check_times
    /\ resyncs <= 1
    /\ resyncs = 1 => AnyReachable
    /\ pc = "done" => resyncs = (IF AnyReachable THEN 1 ELSE 0)

\* a finished run whose second probe was the first Reachable one
C1_Witness ==
    /\ pc = "done" /\ max_check_times >= 2
    /\ probes = << "Unreachable", "Reachable" >> /\ resyncs = 1

\* C2: time.sleep(check_interval) is called after an Unreachable probe exactly
\* when that probe is not the last permitted attempt: k-1 sleeps before a
\* first Reachable attempt k, n-1 sleeps when all n probes are Unreachable.
C2_SleepsBetweenAttempts ==
    /\ sleeps = [k \in 1..Len(sleeps) |-> k - 1]
    /\ \A k \in 1..Len(sleeps) :
         /\ sleeps[k] < max_check_times - 1
         /\ probes[sleeps[k] + 1] = "Unreachable"
    /\ pc # "sleep" =>
         \A j \in 1..Len(probes) :
            (probes[j] = "Unreachable" /\ j - 1 < max_check_times - 1)
               => \E k \in 1..Len(sleeps) : sleeps[k] = j - 1
    /\ (pc = "done" /\ AnyReachable) =>
         Len(sleeps) = Len(probes) - 1 /\ resyncs = 1
    /\ (pc = "done" /\ ~AnyReachable /\ max_check_times >= 1) =>
         Len(probes) = max_check_times /\ Len(sleeps) = max_check_times - 1

\* max_check_times = 3, probes Unreachable, Unreachable, Reachable: two sleeps,
\* after attempts 1 and 2, and one resync
C2_Witness ==
    /\ pc = "done" /\ max_check_times = 3
    /\ probes = << "Unreachable", "Unreachable", "Reachable" >>
    /\ sleeps = << 0, 1 >> /\ resyncs = 1

\* the names of the scheduler commands a registrar call issued
CmdNames(c) == { c.cmds[k].cmd : k \in 1..Len(c.cmds) }

\* the registrar calls that have returned
Returned == { k \in 1..Len(calls) : calls[k].done }

\* C3: no temporary descriptor file is on disk once ensure_schtask_installed
\* has returned, whichever way create_schtask was left.
C3_NoTempFileAfterReturn == rpc = "idle" => files = {}

\* C4: whenever descriptor-based creation fails, the /TR fallback is
\* attempted: a create_schtask that did not create the task from the XML
\* issued the fallback command, so ok = false means both paths failed.
C4_FallbackAfterAnyFailure ==
    \A k \in Returned :
       (calls[k].kind = "install" /\ calls[k].ret.msg # "exists"
          /\ calls[k].ret.msg # "Created from generated XML")
       => "create_tr" \in CmdNames(calls[k])

C6_RemoveDeletesIffRegistered ==
    \A k \in Returned :
       calls[k].kind = "remove" =>
          /\ ~calls[k].before =>
                /\ calls[k].ret = Ret(TRUE, "not found")
                /\ "delete" \notin CmdNames(calls[k])
                /\ calls[k].after = calls[k].before
          /\ calls[k].before => "delete" \in CmdNames(calls[k])

\* the messages the registrar returns
RegistrarMessages ==
    { "exists", "not found", "Created from generated XML", "Created by /TR fallback",
      "both methods failed", "Deleted", "error" }

\* C9: ensure_schtask_installed and ensure_schtask_removed never raise: every
\* call returns a pair (ok, message), whatever the scheduler commands did.
C9_RegistrarNeverRaises ==
    /\ rpc = "idle" => Returned = 1..Len(calls)
    /\ \A k \in Returned :
          /\ ~calls[k].ret.raised
          /\ calls[k].ret.ok \in BOOLEAN
          /\ calls[k].ret.msg \in RegistrarMessages

\* calls that returned although a scheduler command could not be started: an
\* install whose create command failed to start, a removal whose delete did
C9_Witness ==
    /\ Len(calls) = 2 /\ Returned = {1, 2}
    /\ calls[1].kind = "install" /\ calls[2].kind = "remove"
    /\ [cmd |-> "create_xml", res |-> "nostart"] = calls[1].cmds[Len(calls[1].cmds)]
    /\ [cmd |-> "delete", res |-> "nostart"] = calls[2].cmds[Len(calls[2].cmds)]
    /\ ~calls[1].ret.ok /\ ~calls[2].ret.ok

\* the messages of the notifications the resync block sends
ResyncMessages ==
    { "The time has been checked successfully.", "No valid path configured",
      "Failed to launch Time checker",
      "w32tm failed or service not running: w32tm failed: returncode stdout stderr",
      "w32tm failed or service not running: OSError" }

IsResyncNote(n) == n.msg \in ResyncMessages

\* the configuration enables the external program: the string Yes, or the
\* boolean an unquoted Yes is in YAML
ExternalEnabled ==
    /\ "Use_excternal_path" \in DOMAIN config
    /\ config["Use_excternal_path"] \in { StrV(Yes_), BoolV(TRUE) }

PathEmpty == "Path" \notin DOMAIN config \/ config["Path"] = StrV(<<>>)

\* C7: with the external program enabled and Path empty, the resync step
\* launches nothing and issues no time-service or resync command, sends one
\* Failure notification, and the run is over: that notification is the last,
\* the Reachable probe is the last probe and no sleep follows it.
C7_MissingPathFailsFast ==
    (ExternalEnabled /\ PathEmpty) =>
       /\ cmds = <<>>
       /\ pc \notin { "startfile", "sc_query", "sc_start", "poll", "w32tm" }
       /\ resyncs >= 1 =>
            /\ resyncs = 1 /\ pc = "done"
            /\ Len(SelectSeq(notes, IsResyncNote)) = 1
            /\ IsResyncNote(notes[Len(notes)])
            /\ notes[Len(notes)].title = "Failure"
            /\ probes[Len(probes)] = "Reachable"
            /\ Len(sleeps) = Len(probes) - 1

\* the run ended at line 249: external program enabled, Path empty, a
\* Reachable second probe
C7_Witness ==
    /\ "Use_excternal_path" \in DOMAIN config
    /\ config["Use_excternal_path"] = StrV(Yes_)
    /\ PathEmpty /\ pc = "done" /\ resyncs = 1
    /\ probes = << "Unreachable", "Reachable" >>
    /\ notes[Len(notes)] = Note("Failure", "No valid path configured")

\* C8: with the external program disabled, once the first status query
\* reports RUNNING the only further command is w32tm /resync: no sc start,
\* no second sc query, no wait.
C8_RunningServiceNotStarted ==
    ("Use_excternal_path" \notin DOMAIN config
       /\ cmds # <<>> /\ cmds[1] = Cmd("sc_query", "RUNNING"))
    => /\ Len(cmds) <= 2
       /\ Len(cmds) = 2 => cmds[2].cmd = "w32tm"
       /\ Len(cmds) = 1 => pc = "w32tm"
       /\ polls = 0

\* the service was running: one status query, then the resync command
C8_Witness ==
    /\ "Use_excternal_path" \notin DOMAIN config
    /\ pc = "done"
    /\ cmds = << Cmd("sc_query", "RUNNING"), Cmd("w32tm", "zero") >>

\* the values of lauch_when_device_start that read yes, true or 1 whatever
\* their case
AutoTruthy == { StrV(<<"Y","E","S">>), BoolV(TRUE) }

AutoRequested ==
    /\ "lauch_when_device_start" \in DOMAIN config
    /\ config["lauch_when_device_start"] \in AutoTruthy

IsAutostartNote(n) == n.title \in { "Autostart Failed", "Autostart Cleanup Failed" }

\* the max_check_times the configuration file asks for
ConfiguredMax ==
    IF "max_check_times" \in DOMAIN config
    THEN config["max_check_times"] ELSE IntV(DefaultMaxCheckTimes)

\* C10: main calls the registrar exactly once, before the first probe:
\* install when the option is truthy, removal otherwise; a registrar result
\* ok = false sends one notification and does not end the run: the loop is
\* entered with the configured max_check_times and the first probe is made.
C10_ReconcileOnceThenProbe ==
    /\ Len(calls) <= 1
    /\ pc \notin { "load", "start" } =>
         /\ Len(calls) = 1
         /\ calls[1].kind = (IF AutoRequested THEN "install" ELSE "remove")
    /\ pc \in { "load", "start", "reconciling" } => probes = <<>> /\ notes = <<>>
    /\ pc \notin { "load", "start", "reconciling" } =>
         /\ calls[1].done
         /\ Len(SelectSeq(notes, IsAutostartNote)) = (IF calls[1].ret.ok THEN 0 ELSE 1)
         /\ ~calls[1].ret.ok =>
              /\ notes[1].title = (IF calls[1].kind = "install" THEN "Autostart Failed"
                                   ELSE "Autostart Cleanup Failed")
              /\ notes[1].msg = calls[1].ret.msg
         /\ pc = "crashed" =>
              \/ ConfiguredMax.t # "int"
              \/ check_interval < 0 /\ sleeps # <<>>
         /\ pc # "crashed" => max_check_times = ConfiguredMax.v
         /\ (pc = "done" /\ max_check_times >= 1) => probes # <<>>

\* the registrar failed, the notification was sent, the probes were made
C10_Witness ==
    /\ pc = "done" /\ ~calls[1].ret.ok /\ calls[1].kind = "install"
    /\ notes[1].title = "Autostart Failed"
    /\ max_check_times = 2 /\ Len(probes) = 2

\* the notifications of the retry loop, the autostart one set aside
LoopNotes == SelectSeq(notes, LAMBDA n : ~IsAutostartNote(n))

\* C11: when all n = max_check_times probes are Unreachable the run sends,
\* after each attempt but the last, one notification stating the attempts that
\* remain, n-1 down to 1, then one terminal failure notification, and ends
\* without a resync attempt; the number stated is the number of probes made
\* after the notification.
C11_ExhaustedNotifications ==
    /\ \A k \in 1..Len(LoopNotes) :
          LoopNotes[k].msg = "Remain attempts" =>
             /\ LoopNotes[k].remain = max_check_times - k
             /\ LoopNotes[k].remain >= 1
             /\ probes[k] = "Unreachable"
    /\ (pc = "done" /\ ~AnyReachable /\ Len(probes) >= 1) =>
          /\ Len(probes) = max_check_times
          /\ resyncs = 0 /\ cmds = <<>>
          /\ Len(LoopNotes) = max_check_times
          /\ \A k \in 1..(max_check_times - 1) :
                /\ LoopNotes[k].title = "Failure"
                /\ LoopNotes[k].msg = "Remain attempts"
                /\ LoopNotes[k].remain = Len(probes) - k
          /\ LoopNotes[max_check_times] = Note("Failure", "Time check failed.")

\* three Unreachable probes: "2 remain", "1 remains", then the terminal failure
C11_Witness ==
    /\ pc = "done" /\ max_check_times = 3 /\ resyncs = 0
    /\ probes = << "Unreachable", "Unreachable", "Unreachable" >>
    /\ Len(LoopNotes) = 3
    /\ LoopNotes[1].remain = 2 /\ LoopNotes[2].remain = 1
    /\ LoopNotes[3].msg = "Time check failed."

\* C12: with the external program enabled (any value read as yes, true or 1)
\* and a non-empty Path, a Reachable probe is followed by the launch of the
\* program and nothing else: Success is sent when the launch succeeds,
\* Failure when it raises.
C12_ExternalLaunch ==
    (ExternalEnabled /\ ~PathEmpty /\ resyncs >= 1) =>
       /\ pc \in { "startfile", "done" }
       /\ pc = "done" =>
            /\ Len(cmds) = 1 /\ cmds[1].cmd = "startfile"
            /\ cmds[1].res = "launched" =>
                  notes[Len(notes)] = Note("Success", "The time has been checked successfully.")
            /\ cmds[1].res = "raised" => notes[Len(notes)].title = "Failure"

\* the documented defaults: every recognised option with the value main and
\* send_notification fall back to
DocumentedDefault ==
    [ key \in { Keys[k] : k \in 1..Len(Keys) } |->
        CASE key = "Use_excternal_path"      -> StrV(No_)
          [] key = "Path"                    -> StrV(<<>>)
          [] key = "lauch_when_device_start" -> StrV(No_)
          [] key = "check_interval"          -> IntV(DefaultCheckInterval)
          [] key = "max_check_times"         -> IntV(DefaultMaxCheckTimes)
          [] key = "use_notification"        -> StrV(Yes_) ]

\* what a recognised option resolves to in the snapshot
Resolved(key) == IF key \in DOMAIN config THEN config[key] ELSE DocumentedDefault[key]

\* C13: load_config on a missing or malformed file returns the documented
\* default mapping and leaves a config file that holds the same mapping; an
\* option missing from the snapshot resolves to its documented default; the
\* snapshot is never changed after it was loaded.
C13_DefaultConfig ==
    /\ [][ (pc = "load" /\ cfgfile.state \in { "missing", "malformed" }) =>
              /\ config' = DocumentedDefault
              /\ cfgfile' = FileOf(config') ]_vars
    /\ [][ pc # "load" => config' = config ]_vars
    /\ [] ( pc \in { "loop", "sleep", "resync", "done" } =>
              /\ Resolved("max_check_times").t = "int"
              /\ max_check_times = Resolved("max_check_times").v
              /\ check_interval = Resolved("check_interval").v
              /\ calls[1].kind = "install" <=>
                    lower(str(Resolved("lauch_when_device_start"))) \in TruthyWords )

\* the positions of main at which an external operation is made
AtExternalOperation ==
    \/ pc = "reconciling" /\ rpc # "idle"
    \/ pc \in { "loop", "resync", "startfile", "sc_query", "sc_start", "poll", "w32tm" }

\* the results of a command that failed
FailedResults == { "nostart", "nonzero", "raised" }

\* C14: no failure of an external operation leaves main uncaught: a step that
\* makes one never ends the run with a fault; a scheduler command that fails
\* gives a returned pair (ok, message), a probe that fails gives Unreachable,
\* a time-service, resync or launch command that fails gives a Failure
\* notification.
C14_NoUncaughtFailure ==
    /\ [][ AtExternalOperation => pc' # "crashed" ]_vars
    /\ [][ (pc = "loop" /\ Len(probes') > Len(probes)) =>
              /\ probes'[Len(probes')] \in { "Reachable", "Unreachable" }
              /\ pc' \in { "resync", "sleep", "loop" } ]_vars
    /\ [] /\ \A k \in 1..Len(calls) :
               (calls[k].done /\ \E j \in 1..Len(calls[k].cmds) :
                                    calls[k].cmds[j].res \in FailedResults)
               => ~calls[k].ret.raised /\ calls[k].ret.ok \in BOOLEAN
          /\ (cmds # <<>> /\ cmds[Len(cmds)].res \in FailedResults) =>
               /\ pc = "done"
               /\ notes[Len(notes)].title = "Failure"

\* a run in which a scheduler command, a probe and the resync command failed
C14_Witness ==
    /\ pc = "done"
    /\ calls[1].done /\ calls[1].cmds # <<>>
    /\ calls[1].cmds[Len(calls[1].cmds)].res = "nostart"
    /\ probes = << "Unreachable", "Reachable" >>
    /\ cmds # <<>>
    /\ cmds[Len(cmds)] = Cmd("w32tm", "nostart")
    /\ notes[Len(notes)] = Note("Failure", "w32tm failed or service not running: OSError")

\* main is one thread that runs until it returns or a fault ends it: a step
\* that can be taken is taken
SpecFair == Spec /\ WF_vars(Next)

\* time.sleep did not return: the negative interval made it raise
SleepRaised == pc = "crashed" /\ check_interval < 0 /\ sleeps # <<>>

\* the positions inside the body of the retry loop
InLoopBody == pc \in { "sleep", "resync", "startfile", "sc_query", "sc_start", "poll", "w32tm" }

\* C15: provided every external command and every sleep returns, a run of
\* main ends in a terminal state; it makes at most max_check_times probes,
\* the attempt counter is within 0..max_check_times-1 inside the loop, and
\* nothing is probed, slept, resynchronised or notified after the end.
C15_Terminates ==
    /\ <>(pc = "done" \/ SleepRaised)
    /\ [] /\ (InLoopBody \/ pc \in { "loop", "done" }) =>
               Len(probes) <= (IF max_check_times > 0 THEN max_check_times ELSE 0)
          /\ InLoopBody => i \in 0..(max_check_times - 1)
    /\ [][ pc = "done" => UNCHANGED << probes, sleeps, resyncs, notes, cmds >> ]_vars

\* how many commands of that name the resync block issued
CountCmd(name) == Cardinality({ k \in 1..Len(cmds) : cmds[k].cmd = name })

SuccessNote == Note("Success", "The time has been checked successfully.")
ExitCodeNote ==
    Note("Failure", "w32tm failed or service not running: w32tm failed: returncode stdout stderr")
NotStartedNote == Note("Failure", "w32tm failed or service not running: OSError")

\* a finished run that took the built-in branch and whose first status query
\* ran and did not report RUNNING
BuiltinNotRunning ==
    /\ pc = "done"
    /\ "Use_excternal_path" \notin DOMAIN config
    /\ cmds # <<>> /\ cmds[1] = Cmd("sc_query", "OTHER")

\* the commands from the third on are p polls, each a wait of one second and
\* a status query that ran; only the last one may report RUNNING
PollsAre(p) ==
    \A k \in 1..p :
       /\ cmds[2 * k + 1] = Cmd("sleep", "1")
       /\ cmds[2 * k + 2].cmd = "sc_query"
       /\ cmds[2 * k + 2].res \in { "OTHER", "RUNNING" }
       /\ cmds[2 * k + 2].res = "RUNNING" => k = p

\* the wait loop ended after p polls: the last one reported RUNNING or the
\* five polls were used up
PollsOver(p) ==
    /\ p \in 1..PollLimit
    /\ p < PollLimit => cmds[2 * p + 2].res = "RUNNING"

\* the claim as stated: one start, at most five polls, the resync command
\* always, its exit code alone deciding
C16_StartPollResync ==
    BuiltinNotRunning =>
       /\ Len(cmds) >= 3
       /\ cmds[2].cmd = "sc_start" /\ CountCmd("sc_start") = 1
       /\ cmds[Len(cmds)].cmd = "w32tm" /\ CountCmd("w32tm") = 1
       /\ LET p == (Len(cmds) - 3) \div 2
          IN Len(cmds) = 2 * p + 3 /\ PollsOver(p) /\ PollsAre(p)
       /\ notes[Len(notes)] =
             (IF cmds[Len(cmds)].res = "zero" THEN SuccessNote ELSE ExitCodeNote)

\* C16: on the built-in path, when the first status query does not report
\* running, exactly one start command is issued; if it could be started, at
\* most 5 polls follow, each after a wait of one second, stopping at the first
\* that reports running; if every poll could be started the resync command is
\* invoked exactly once, whether or not the service reported running, and if
\* it could be started its exit code decides: non-zero gives Failure with the
\* code and output, zero gives Success. A start, poll or resync command that
\* cannot be started ends the branch with a Failure notification and no
\* further command.
C16_StartPollResyncIfStartable ==
    BuiltinNotRunning =>
       /\ Len(cmds) >= 2
       /\ cmds[2].cmd = "sc_start" /\ CountCmd("sc_start") = 1
       /\ CountCmd("startfile") = 0
       /\ LET last == cmds[Len(cmds)]
          IN CASE last.cmd = "sc_start" ->
                    /\ last.res = "nostart"
                    /\ notes[Len(notes)] = NotStartedNote
               [] last.cmd = "sc_query" ->
                    /\ last.res = "nostart" /\ CountCmd("w32tm") = 0
                    /\ LET p == (Len(cmds) - 2) \div 2
                       IN /\ Len(cmds) = 2 * p + 2 /\ p \in 1..PollLimit
                          /\ cmds[2 * p + 1] = Cmd("sleep", "1")
                          /\ PollsAre(p - 1)
                          /\ \A k \in 1..(p - 1) : cmds[2 * k + 2].res = "OTHER"
                    /\ notes[Len(notes)] = NotStartedNote
               [] last.cmd = "w32tm" ->
                    /\ CountCmd("w32tm") = 1 /\ cmds[2].res = "ran"
                    /\ LET p == (Len(cmds) - 3) \div 2
                       IN Len(cmds) = 2 * p + 3 /\ PollsOver(p) /\ PollsAre(p)
                    /\ notes[Len(notes)] =
                          (CASE last.res = "zero"    -> SuccessNote
                             [] last.res = "nonzero" -> ExitCodeNote
                             [] OTHER                -> NotStartedNote)
               [] OTHER -> FALSE

\* the service never reported running in five polls and the resync command
\* was invoked all the same; it ended with a non-zero code
C16_Witness ==
    /\ BuiltinNotRunning
    /\ Len(cmds) = 2 * PollLimit + 3 /\ cmds[2] = Cmd("sc_start", "ran")
    /\ \A k \in 1..PollLimit : cmds[2 * k + 2] = Cmd("sc_query", "OTHER")
    /\ cmds[Len(cmds)] = Cmd("w32tm", "nonzero")
    /\ notes[Len(notes)] = ExitCodeNote

\* the notifications the resync block sent
OutcomeNotes == SelectSeq(notes, IsResyncNote)

\* the resync action succeeded: the external program was launched, or the
\* resync command ended with exit code zero
ResyncActionSucceeded ==
    /\ cmds # <<>>
    /\ cmds[Len(cmds)] \in { Cmd("startfile", "launched"), Cmd("w32tm", "zero") }

\* C17: a finished run in which a probe was Reachable has sent exactly one
\* outcome notification for the resync step, titled Success or Failure; at no
\* moment have two been sent; Success is sent only if the launch succeeded or
\* the resync command ended with exit code zero.
C17_OneOutcome ==
    /\ Len(OutcomeNotes) <= 1
    /\ ~AnyReachable => OutcomeNotes = <<>>
    /\ (pc = "done" /\ AnyReachable) =>
          /\ Len(OutcomeNotes) = 1
          /\ OutcomeNotes[1] = notes[Len(notes)]
          /\ OutcomeNotes[1].title \in { "Success", "Failure" }
    /\ \A k \in 1..Len(notes) : notes[k].title = "Success" => ResyncActionSucceeded

\* the resync command ended with a non-zero code: one Failure, no Success
C17_Witness ==
    /\ pc = "done" /\ AnyReachable
    /\ cmds # <<>> /\ cmds[Len(cmds)] = Cmd("w32tm", "nonzero")
    /\ Len(OutcomeNotes) = 1 /\ OutcomeNotes[1].title = "Failure"

\* C18: when ensure_schtask_installed returns ok = true the task is
\* registered afterwards, when ensure_schtask_removed returns ok = true it is
\* not, whatever the existence query did, also when it could not be started;
\* a create command is issued only for a task that is not registered, a
\* delete command only for one that is.
C18_RegistrarPostcondition ==
    \A k \in Returned :
       /\ (calls[k].kind = "install" /\ calls[k].ret.ok) => calls[k].after
       /\ (calls[k].kind = "remove" /\ calls[k].ret.ok) => ~calls[k].after
       /\ (CmdNames(calls[k]) \cap { "create_xml", "create_tr" } # {}) => ~calls[k].before
       /\ "delete" \in CmdNames(calls[k]) => calls[k].before

\* the commands of the built-in branch
BuiltinCmds == { "sc_query", "sc_start", "sleep", "w32tm" }

\* C19: the two resync branches exclude each other in a run: with the
\* external program enabled no time-service query, start or resync command
\* is issued, also when the launch fails or the path is empty; with it
\* disabled no external program is launched, also when the resync command
\* fails.
C19_BranchesExclusive ==
    /\ pc # "load" =>
         /\ ExternalEnabled =>
               /\ \A k \in 1..Len(cmds) : cmds[k].cmd \notin BuiltinCmds
               /\ pc \notin { "sc_query", "sc_start", "poll", "w32tm" }
         /\ ~ExternalEnabled =>
               /\ CountCmd("startfile") = 0
               /\ pc # "startfile"
    /\ ~(CountCmd("startfile") > 0 /\ \E k \in 1..Len(cmds) : cmds[k].cmd \in BuiltinCmds)

\* the external program was enabled and its launch failed: the run ended with
\* that one command
C19_Witness ==
    /\ pc = "done" /\ ExternalEnabled
    /\ cmds = << Cmd("startfile", "raised") >>
    /\ notes[Len(notes)] = Note("Failure", "Failed to launch Time checker")

\* max_check_times resolves to an integer that is zero or negative
NoAttemptsConfigured == ConfiguredMax.t = "int" /\ ConfiguredMax.v <= 0

\* C20: when max_check_times resolves to 0 or a negative integer the run
\* makes the autostart reconciliation and ends: no probe, no sleep, no resync
\* attempt, no command of a resync branch, and no notification other than the
\* one a failed reconciliation sends.
C20_NoAttempts ==
    (pc # "load" /\ NoAttemptsConfigured) =>
       /\ probes = <<>> /\ sleeps = <<>> /\ resyncs = 0 /\ cmds = <<>>
       /\ LoopNotes = <<>>
       /\ pc \in { "start", "reconciling", "loop", "done" }
       /\ pc \in { "loop", "done" } =>
             /\ Len(calls) = 1 /\ calls[1].done
             /\ max_check_times = ConfiguredMax.v

\* a finished run with max_check_times -1 whose reconciliation failed and was
\* notified
C20_Witness ==
    /\ pc = "done" /\ NoAttemptsConfigured /\ max_check_times = -1
    /\ Len(calls) = 1 /\ ~calls[1].ret.ok
    /\ Len(notes) = 1 /\ IsAutostartNote(notes[1])
    /\ probes = <<>>

====
